---- MODULE Spec2Model ----
(***************************************************************************)
(* A model of src/main.rs: a command-line reducer that folds one binary    *)
(* arithmetic operation over the numbers read line by line from standard   *)
(* input.                                                                  *)
(*                                                                         *)
(* Text is a sequence of one-character strings.  An f32 is a record        *)
(* [k, neg, n, d]: a finite value is the signed fraction n/d in lowest     *)
(* terms (so zero carries a sign, as in IEEE-754), and there are the two   *)
(* infinities and NaN.  Finite arithmetic is exact: the lines of the model *)
(* are small integers and no claim checked below depends on rounding.      *)
(***************************************************************************)
EXTENDS Integers, Sequences, FiniteSets

\* ------------------------------------------------------------ bounds

\* the longest input stream, in lines
MaxLines == 3
\* the largest value of --ignore
MaxIgnore == 2
\* the longest raw line handed to clean_and_enumerate in SpecClean
MaxLen == 5

\* ------------------------------------------------------------ text

WhiteSpace == {" ", "\t"}

DigitChars == <<"0", "1", "2", "3", "4", "5", "6", "7", "8", "9">>

IsDigit(c) == \E k \in 1..10 : DigitChars[k] = c

DigitVal(c) == (CHOOSE k \in 1..10 : DigitChars[k] = c) - 1

\* str::trim_start / str::trim_end: drop white space from one end
RECURSIVE trim_start(_)
trim_start(s) ==
    IF s = <<>> THEN <<>>
    ELSE IF Head(s) \in WhiteSpace THEN trim_start(Tail(s))
    ELSE s

RECURSIVE trim_end(_)
trim_end(s) ==
    IF s = <<>> THEN <<>>
    ELSE IF s[Len(s)] \in WhiteSpace THEN trim_end(SubSeq(s, 1, Len(s) - 1))
    ELSE s

\* trim with trim_start alone: the white space at the end is kept
trim_StartOnly(s) == trim_start(s)

\* x.trim().to_string()
trim(s) == trim_end(trim_start(s))

\* the decimal rendering of a usize, as "{}" formats it
RECURSIVE FmtUsize(_)
FmtUsize(n) ==
    IF n < 10 THEN <<DigitChars[n + 1]>>
    ELSE Append(FmtUsize(n \div 10), DigitChars[(n % 10) + 1])

\* ------------------------------------------------------------ f32

RECURSIVE GCD(_, _)
GCD(a, b) == IF b = 0 THEN a ELSE GCD(b, a % b)

NaN == [k |-> "nan", neg |-> FALSE, n |-> 0, d |-> 0]

Inf(neg) == [k |-> "inf", neg |-> neg, n |-> 1, d |-> 0]

\* the finite value (-1)^neg * n/d, d > 0, in lowest terms
Fin(neg, n, d) ==
    LET g == GCD(n, d)
    IN  [k |-> "fin", neg |-> neg, n |-> n \div g, d |-> d \div g]

IsZero(a) == a.k = "fin" /\ a.n = 0

Negate(a) == IF a.k = "nan" THEN a ELSE [a EXCEPT !.neg = ~a.neg]

\* the numerator of a finite value, signed
Signed(a) == IF a.neg THEN 0 - a.n ELSE a.n

\* <f32 as Add>::add
F32Add(a, b) ==
    IF a.k = "nan" \/ b.k = "nan" THEN NaN
    ELSE IF a.k = "inf" /\ b.k = "inf" THEN (IF a.neg = b.neg THEN a ELSE NaN)
    ELSE IF a.k = "inf" THEN a
    ELSE IF b.k = "inf" THEN b
    ELSE LET s == Signed(a) * b.d + Signed(b) * a.d
         IN  IF s = 0
             THEN Fin(IsZero(a) /\ IsZero(b) /\ a.neg /\ b.neg, 0, 1)
             ELSE IF s < 0 THEN Fin(TRUE, 0 - s, a.d * b.d)
             ELSE Fin(FALSE, s, a.d * b.d)

\* <f32 as Sub>::sub
F32Sub(a, b) == F32Add(a, Negate(b))

\* <f32 as Mul>::mul
F32Mul(a, b) ==
    IF a.k = "nan" \/ b.k = "nan" THEN NaN
    ELSE IF (a.k = "inf" /\ IsZero(b)) \/ (IsZero(a) /\ b.k = "inf") THEN NaN
    ELSE IF a.k = "inf" \/ b.k = "inf" THEN Inf(a.neg # b.neg)
    ELSE Fin(a.neg # b.neg, a.n * b.n, a.d * b.d)

\* <f32 as Div>::div
F32Div(a, b) ==
    IF a.k = "nan" \/ b.k = "nan" THEN NaN
    ELSE IF a.k = "inf" /\ b.k = "inf" THEN NaN
    ELSE IF IsZero(a) /\ IsZero(b) THEN NaN
    ELSE IF a.k = "inf" \/ IsZero(b) THEN Inf(a.neg # b.neg)
    ELSE IF b.k = "inf" THEN Fin(a.neg # b.neg, 0, 1)
    ELSE Fin(a.neg # b.neg, a.n * b.d, a.d * b.n)

\* the value of a run of decimal digits
RECURSIVE DigitsValue(_)
DigitsValue(s) ==
    IF s = <<>> THEN 0
    ELSE 10 * DigitsValue(SubSeq(s, 1, Len(s) - 1)) + DigitVal(s[Len(s)])

AllDigits(s) == s # <<>> /\ \A k \in 1..Len(s) : IsDigit(s[k])

\* val.parse::<f32>() on the alphabet of the model (white space, signs,
\* digits and "x"): an optional sign and then one or more digits.
ParseF32(s) ==
    LET signed == s # <<>> /\ Head(s) \in {"+", "-"}
        body   == IF signed THEN Tail(s) ELSE s
    IN  IF AllDigits(body)
        THEN [ok |-> TRUE,
              v  |-> Fin(signed /\ Head(s) = "-", DigitsValue(body), 1)]
        ELSE [ok |-> FALSE, v |-> NaN]

\* ------------------------------------------------------------ options

\* enum SubCommand
SubCommands == {"Add", "Sub", "Mul", "Div"}

\* struct Opts, as Opts::parse() hands it to main (verbose only sets the
\* logging level and is left out)
OptsSet ==
    [subcmd : SubCommands,
     identity_starting_point : BOOLEAN,
     silent : BOOLEAN,
     ignore : 0..MaxIgnore]

\* the identity with the match on the subcommand dropped: 0.0 for all
identity_of_AllZero(subcmd) == Fin(FALSE, 0, 1)

\* main: let identity = match opts.subcmd { ... }
identity_of(subcmd) ==
    IF subcmd \in {"Mul", "Div"} THEN Fin(FALSE, 1, 1) ELSE Fin(FALSE, 0, 1)

\* main: let operator = match opts.subcmd { ... }
operator(subcmd, a, b) ==
    CASE subcmd = "Add" -> F32Add(a, b)
      [] subcmd = "Sub" -> F32Sub(a, b)
      [] subcmd = "Mul" -> F32Mul(a, b)
      [] subcmd = "Div" -> F32Div(a, b)

\* InputHandler::new
InputHandler_new(o, identity) ==
    [identity |-> identity, ignore |-> o.ignore, silent |-> o.silent]

\* ------------------------------------------------------------ Option, Result

None == <<>>

Some(v) == <<v>>

Ok(o) == [tag |-> "Ok", opt |-> o, msg |-> <<>>]

Err(m) == [tag |-> "Err", opt |-> None, msg |-> m]

\* the message with the index of the line in place of its number
FailedToParse_ZeroBased(val, i) ==
    <<"Failed to parse ">> \o val \o <<" at line ">> \o FmtUsize(i)

\* format!("Failed to parse {} at line {}", val, i + 1)
FailedToParse(val, i) ==
    <<"Failed to parse ">> \o val \o <<" at line ">> \o FmtUsize(i + 1)

\* handle with the test for an empty line before the test for the
\* ignored prefix
handle_EmptyBeforeIgnore(self, i, val) ==
    IF val = <<>> THEN Ok(None)
    ELSE IF i < self.ignore THEN Ok(Some(self.identity))
    ELSE LET p == ParseF32(val)
         IN  IF p.ok THEN Ok(Some(p.v))
             ELSE IF self.silent THEN Ok(Some(self.identity))
             ELSE Err(FailedToParse(val, i))

\* handle without the test for an empty line: the empty text goes to the
\* parser like any other
handle_NoEmptyCheck(self, i, val) ==
    IF i < self.ignore THEN Ok(Some(self.identity))
    ELSE LET p == ParseF32(val)
         IN  IF p.ok THEN Ok(Some(p.v))
             ELSE IF self.silent THEN Ok(Some(self.identity))
             ELSE Err(FailedToParse(val, i))

\* handle with the silent flag not consulted: every parse failure is an Err
handle_NeverSilent(self, i, val) ==
    IF i < self.ignore THEN Ok(Some(self.identity))
    ELSE IF val = <<>> THEN Ok(None)
    ELSE LET p == ParseF32(val)
         IN  IF p.ok THEN Ok(Some(p.v))
             ELSE Err(FailedToParse(val, i))

\* handle with 0.0 in place of the identity of the operation
handle_ZeroForIdentity(self, i, val) ==
    IF i < self.ignore THEN Ok(Some(Fin(FALSE, 0, 1)))
    ELSE IF val = <<>> THEN Ok(None)
    ELSE LET p == ParseF32(val)
         IN  IF p.ok THEN Ok(Some(p.v))
             ELSE IF self.silent THEN Ok(Some(Fin(FALSE, 0, 1)))
             ELSE Err(FailedToParse(val, i))

\* InputHandler::handle
handle(self, i, val) ==
    IF i < self.ignore THEN Ok(Some(self.identity))
    ELSE IF val = <<>> THEN Ok(None)
    ELSE LET p == ParseF32(val)
         IN  IF p.ok THEN Ok(Some(p.v))
             ELSE IF self.silent THEN Ok(Some(self.identity))
             ELSE Err(FailedToParse(val, i))

\* the closure InputHandler::parse_input gives to map_while: the element to
\* yield, or None to end the stream
map_while_closure(r) == IF r.tag = "Ok" THEN r.opt ELSE None

\* the message parse_input logs at error level for a handle result
logged_error(r) == IF r.tag = "Err" THEN <<r.msg>> ELSE <<>>

\* ------------------------------------------------------------ input

\* what BufRead::lines yields for one line: the text, or a read error
Line(s) == [ok |-> TRUE, text |-> s]

IoError == [ok |-> FALSE, text |-> <<>>]

\* the lines the model feeds to a run: an empty line, a line of white space,
\* three numbers (one padded, one a zero) and a padded line that is no
\* number and holds a blank
RawLines ==
    { <<>>,
      <<" ", "\t">>,
      <<"6">>,
      <<"\t", "2", " ">>,
      <<"0">>,
      <<" ", "x", " ", "y", "\t">> }

Items == {Line(s) : s \in RawLines} \cup {IoError}

Streams == UNION {[1..n -> Items] : n \in 0..MaxLines}

\* the lines SpecClean feeds to clean_and_enumerate: every text of at most
\* MaxLen characters over two white space characters and a letter
CleanChars == {" ", "\t", "a"}

CleanLines == UNION {[1..n -> CleanChars] : n \in 0..MaxLen}

\* ------------------------------------------------------------ state

VARIABLES
    opts,      \* the parsed command line
    stdin,     \* the input source: what lines() yields, in order
    consumed,  \* how many items have been pulled from the input source
    raw,       \* the item lines() yielded last (None before the first)
    count,     \* the counter of enumerate()
    cleaned,   \* the pair clean_and_enumerate yielded last (None before)
    handled,   \* the results of handle, one per enumerated line
    values,    \* the elements parse_input has yielded
    errors,    \* the messages logged at error level
    acc,       \* the accumulator of the fold: None before the first element
    stdout,    \* the values printed with println!
    pc         \* "folding", "folded", "done" or "panicked"

vars ==
    <<opts, stdin, consumed, raw, count, cleaned, handled, values, errors,
      acc, stdout, pc>>

identity == identity_of(opts.subcmd)

input_handler == InputHandler_new(opts, identity)

\* the fold seeded with the identity whatever --identity-starting-point says
Seed_AlwaysIdentity(o) == Some(identity_of(o.subcmd))

\* the accumulator the fold starts from: fold(identity, ..) or fold_first(..)
Seed(o) ==
    IF o.identity_starting_point THEN Some(identity_of(o.subcmd)) ELSE None

Init ==
    /\ opts \in OptsSet
    /\ stdin \in Streams
    /\ consumed = 0
    /\ raw = None
    /\ count = 0
    /\ cleaned = None
    /\ handled = <<>>
    /\ values = <<>>
    /\ errors = <<>>
    /\ acc = Seed(opts)
    /\ stdout = <<>>
    /\ pc = "folding"

\* the closure of the fold with its operands the wrong way round
fold_step_Swapped(a, x) ==
    IF a = None THEN Some(x) ELSE Some(operator(opts.subcmd, x, a[1]))

\* one application of the fold's closure (fold_first takes the first
\* element as the accumulator)
fold_step(a, x) ==
    IF a = None THEN Some(x) ELSE Some(operator(opts.subcmd, a[1], x))

\* InputHandler::clean_and_enumerate: the pair yielded for text s when n
\* lines went before
clean_and_enumerate(n, s) == <<n, trim(s)>>

\* InputHandler::parse_input on one cleaned pair: the result of handle
parse_input(pair) == handle(input_handler, pair[1], pair[2])

CanPull == pc = "folding" /\ consumed < Len(stdin)

\* lines() yields an Err and x.unwrap() panics
ReadFails ==
    /\ CanPull
    /\ ~stdin[consumed + 1].ok
    /\ consumed' = consumed + 1
    /\ raw' = Some(stdin[consumed + 1])
    /\ pc' = "panicked"
    /\ UNCHANGED <<opts, stdin, count, cleaned, handled, values, errors, acc, stdout>>

\* the pair clean_and_enumerate yields for the next line of the source
next_pair == clean_and_enumerate(count, stdin[consumed + 1].text)

\* the result of handle for the next line of the source
next_result == parse_input(next_pair)

\* a line is read, cleaned, handled and yields an element, which is folded
PullValue ==
    /\ CanPull
    /\ stdin[consumed + 1].ok
    /\ map_while_closure(next_result) # None
    /\ consumed' = consumed + 1
    /\ raw' = Some(stdin[consumed + 1])
    /\ count' = count + 1
    /\ cleaned' = Some(next_pair)
    /\ handled' = Append(handled, next_result)
    /\ values' = Append(values, map_while_closure(next_result)[1])
    /\ acc' = fold_step(acc, map_while_closure(next_result)[1])
    /\ UNCHANGED <<opts, stdin, errors, stdout, pc>>

\* a line is read, cleaned and handled, and map_while ends the stream
PullStop ==
    /\ CanPull
    /\ stdin[consumed + 1].ok
    /\ map_while_closure(next_result) = None
    /\ consumed' = consumed + 1
    /\ raw' = Some(stdin[consumed + 1])
    /\ count' = count + 1
    /\ cleaned' = Some(next_pair)
    /\ handled' = Append(handled, next_result)
    /\ errors' = errors \o logged_error(next_result)
    /\ pc' = "folded"
    /\ UNCHANGED <<opts, stdin, values, acc, stdout>>

\* lines() is exhausted
EndOfInput ==
    /\ pc = "folding"
    /\ consumed = Len(stdin)
    /\ pc' = "folded"
    /\ UNCHANGED <<opts, stdin, consumed, raw, count, cleaned, handled, values,
                   errors, acc, stdout>>

\* println!("{}", result)
WriteResult ==
    /\ pc = "folded"
    /\ acc # None
    /\ stdout' = Append(stdout, acc[1])
    /\ pc' = "done"
    /\ UNCHANGED <<opts, stdin, consumed, raw, count, cleaned, handled, values,
                   errors, acc>>

\* fold_first returned None and unwrap() panics
UnwrapFails ==
    /\ pc = "folded"
    /\ acc = None
    /\ pc' = "panicked"
    /\ UNCHANGED <<opts, stdin, consumed, raw, count, cleaned, handled, values,
                   errors, acc, stdout>>

Next ==
    \/ ReadFails
    \/ PullValue
    \/ PullStop
    \/ EndOfInput
    \/ WriteResult
    \/ UnwrapFails

Spec == Init /\ [][Next]_vars

\* ------------------------------------------------------------ SpecClean
\* clean_and_enumerate alone, as tests::test_trim_lines drives it: the
\* source yields any line of CleanLines, or a read error, one at a time.

InitClean ==
    /\ opts = [subcmd |-> "Add", identity_starting_point |-> FALSE,
               silent |-> FALSE, ignore |-> 0]
    /\ stdin = <<>>
    /\ consumed = 0
    /\ raw = None
    /\ count = 0
    /\ cleaned = None
    /\ handled = <<>>
    /\ values = <<>>
    /\ errors = <<>>
    /\ acc = None
    /\ stdout = <<>>
    /\ pc = "folding"

\* next() on the iterator: the source yields a line
CleanYields ==
    /\ pc = "folding"
    /\ consumed < MaxLines
    /\ \E s \in CleanLines :
          /\ raw' = Some(Line(s))
          /\ cleaned' = Some(clean_and_enumerate(count, s))
    /\ consumed' = consumed + 1
    /\ count' = count + 1
    /\ UNCHANGED <<opts, stdin, handled, values, errors, acc, stdout, pc>>

\* next() on the iterator: the source yields an Err and x.unwrap() panics
CleanReadFails ==
    /\ pc = "folding"
    /\ consumed < MaxLines
    /\ raw' = Some(IoError)
    /\ consumed' = consumed + 1
    /\ pc' = "panicked"
    /\ UNCHANGED <<opts, stdin, count, cleaned, handled, values, errors, acc, stdout>>

NextClean == CleanYields \/ CleanReadFails

SpecClean == InitClean /\ [][NextClean]_vars

\* ------------------------------------------------------------ claims
\* What the claims say of a run, stated on the options and the input
\* source alone.

Seeded == opts.identity_starting_point

Finished == pc \in {"done", "panicked"}

\* the identity of each operation, as the documentation of SubCommand
\* gives it: 0.0 for Add and Sub, 1.0 for Mul and Div
DocIdentity ==
    CASE opts.subcmd = "Add" -> [k |-> "fin", neg |-> FALSE, n |-> 0, d |-> 1]
      [] opts.subcmd = "Sub" -> [k |-> "fin", neg |-> FALSE, n |-> 0, d |-> 1]
      [] opts.subcmd = "Mul" -> [k |-> "fin", neg |-> FALSE, n |-> 1, d |-> 1]
      [] opts.subcmd = "Div" -> [k |-> "fin", neg |-> FALSE, n |-> 1, d |-> 1]

\* the text of the k-th item of the input with the white space at both
\* ends removed
Text(k) == trim(stdin[k].text)

\* the k-th item (index k - 1) lies in the ignored prefix
Ignored(k) == k - 1 < opts.ignore

\* the k-th item is a line after the ignored prefix that is empty once trimmed
EmptyLine(k) == stdin[k].ok /\ ~Ignored(k) /\ Text(k) = <<>>

\* the k-th item is a line after the ignored prefix that is not empty and
\* is no number
BadLine(k) ==
    stdin[k].ok /\ ~Ignored(k) /\ Text(k) # <<>> /\ ~ParseF32(Text(k)).ok

\* the k-th item is a line after the ignored prefix that is a number
NumberLine(k) ==
    stdin[k].ok /\ ~Ignored(k) /\ Text(k) # <<>> /\ ParseF32(Text(k)).ok

\* the k-th item ends the run's input: a read error, an empty line, or
\* (not silent) a line that is no number
Ends(k) ==
    \/ ~stdin[k].ok
    \/ EmptyLine(k)
    \/ (BadLine(k) /\ ~opts.silent)

\* the position of the first item that ends the input; Len(stdin) + 1 when
\* there is none
EndPos ==
    IF \E k \in 1..Len(stdin) : Ends(k)
    THEN CHOOSE k \in 1..Len(stdin) : Ends(k) /\ \A j \in 1..(k - 1) : ~Ends(j)
    ELSE Len(stdin) + 1

\* the left fold of vs from seed, by recursion on the last element
RECURSIVE FoldLeft(_, _)
FoldLeft(seed, vs) ==
    IF vs = <<>> THEN seed
    ELSE LET a == FoldLeft(seed, SubSeq(vs, 1, Len(vs) - 1))
             b == vs[Len(vs)]
         IN  CASE opts.subcmd = "Add" -> F32Add(a, b)
               [] opts.subcmd = "Sub" -> F32Sub(a, b)
               [] opts.subcmd = "Mul" -> F32Mul(a, b)
               [] opts.subcmd = "Div" -> F32Div(a, b)

\* the numbers of the lines from..to that are numbers, in input order
RECURSIVE Numbers(_, _)
Numbers(from, to) ==
    IF to < from THEN <<>>
    ELSE IF NumberLine(to)
         THEN Append(Numbers(from, to - 1), ParseF32(Text(to)).v)
         ELSE Numbers(from, to - 1)

\* the values the claims expect parse_input to yield: one for each line
\* before the end of the input, the number of a line that is a number and
\* the identity for every other line
ExpectedValues ==
    [k \in 1..(EndPos - 1) |->
        IF NumberLine(k) THEN ParseF32(Text(k)).v ELSE DocIdentity]

\* the result the claims expect of the fold over vs
ExpectedFold(vs) ==
    IF Seeded THEN FoldLeft(DocIdentity, vs) ELSE FoldLeft(vs[1], Tail(vs))

\* the message the claims expect for the line that is no number at position k
ExpectedMessage(k) ==
    <<"Failed to parse ">> \o Text(k) \o <<" at line ", DigitChars[k + 1]>>

\* the value stream has ended (the fold has returned), as opposed to the
\* run dying on a read error
StreamEnded ==
    \/ pc \in {"folded", "done"}
    \/ pc = "panicked" /\ (consumed = 0 \/ stdin[consumed].ok)

\* C1: every line of the ignored prefix, whatever its text and in either
\* mode, is handled to Ok(Some(identity)) and yields the identity as an
\* element: it is neither a stop nor a parse failure.
C1_IgnoredLinesYieldIdentity ==
    \A k \in 1..Len(handled) :
        Ignored(k) =>
            /\ handled[k].tag = "Ok"
            /\ handled[k].opt = <<DocIdentity>>
            /\ Len(values) >= k
            /\ values[k] = DocIdentity

\* an empty line and a line that is no number, both in the ignored prefix
\* of a run that is not silent, were handled and the run went on to print
C1_Witness ==
    /\ pc = "done"
    /\ ~opts.silent
    /\ \E k, j \in 1..Len(handled) :
          /\ Ignored(k) /\ Text(k) = <<>>
          /\ Ignored(j) /\ Text(j) # <<>> /\ ~ParseF32(Text(j)).ok

\* C2: a line after the ignored prefix that is empty once trimmed ends the
\* value stream: it yields no element, every element comes from a line
\* before it, and nothing after it is pulled from the input source.
C2_EmptyLineEndsStream ==
    \A k \in 1..Len(stdin) :
        EmptyLine(k) =>
            /\ consumed <= k
            /\ Len(handled) <= k
            /\ Len(values) < k
            /\ (consumed = k => pc # "folding" /\ handled[k] = Ok(None))

\* a line of white space ended the stream and the run printed with an
\* unreadable item behind it left unpulled
C2_Witness ==
    /\ pc = "done"
    /\ consumed >= 2
    /\ consumed < Len(stdin)
    /\ EmptyLine(consumed)
    /\ stdin[consumed].text # <<>>
    /\ ~stdin[consumed + 1].ok

\* C3: not silent, a line after the ignored prefix that is not empty and is
\* no number is handled to Err("Failed to parse {text} at line {i+1}"); the
\* message is logged, the stream ends at that line and the fold runs over
\* the elements of the lines before it.
C3_ParseFailureEndsStream ==
    \A k \in 1..Len(handled) :
        (BadLine(k) /\ ~opts.silent) =>
            /\ handled[k].tag = "Err"
            /\ handled[k].msg = ExpectedMessage(k)
            /\ errors = <<ExpectedMessage(k)>>
            /\ Len(handled) = k
            /\ consumed = k
            /\ pc # "folding"
            /\ Len(values) = k - 1
            /\ (pc = "done" => stdout = <<ExpectedFold(values)>>)

\* the second line is no number and failed the parse after one element,
\* with a number behind it, and the run printed
C3_Witness ==
    /\ pc = "done"
    /\ ~opts.silent
    /\ consumed = 2
    /\ consumed < Len(stdin)
    /\ BadLine(consumed)
    /\ NumberLine(1)
    /\ NumberLine(consumed + 1)
    /\ errors # <<>>

\* C4: silent, a line after the ignored prefix that is not empty and is no
\* number yields the identity and the run goes on; no line is handled to
\* an Err, nothing is logged as an error, and the stream ends only at an
\* empty line or at the end of the input.
C4_SilentSubstitutesIdentity ==
    opts.silent =>
        /\ errors = <<>>
        /\ \A k \in 1..Len(handled) :
              /\ handled[k].tag = "Ok"
              /\ BadLine(k) =>
                    /\ handled[k].opt = <<DocIdentity>>
                    /\ Len(values) >= k
                    /\ values[k] = DocIdentity
        /\ StreamEnded =>
              \/ consumed = Len(stdin) /\ Len(values) = consumed
              \/ consumed >= 1 /\ EmptyLine(consumed)

\* silent, a line that is no number was followed by a number and the run
\* printed
C4_Witness ==
    /\ pc = "done"
    /\ opts.silent
    /\ \E k \in 1..Len(handled) :
          BadLine(k) /\ k < Len(handled) /\ NumberLine(k + 1)

\* the run is to abort: the item that ends the input is a read error, or
\* the fold has no seed and no line comes before the end of the input
PredictedAbort ==
    \/ EndPos <= Len(stdin) /\ ~stdin[EndPos].ok
    \/ ~Seeded /\ EndPos = 1

\* a run that has not finished has a step to take: the guards of the
\* actions cover every state that is folding within the input or folded
CanStep ==
    \/ pc = "folding" /\ consumed <= Len(stdin)
    \/ pc = "folded"

AllSkipped ==
    /\ EndPos > Len(stdin) \/ stdin[EndPos].ok
    /\ \A k \in 1..(EndPos - 1) : ~NumberLine(k)

C7_IgnoredLinesAreNoSeed ==
    ( /\ pc = "done"
      /\ ~Seeded
      /\ ~opts.silent
      /\ Len(stdin) > opts.ignore
      /\ \A k \in 1..Len(stdin) : stdin[k].ok
      /\ \A k \in (opts.ignore + 1)..Len(stdin) : NumberLine(k) )
    => stdout = <<ExpectedFold(Numbers(1, Len(stdin)))>>

\* C8: the printed result is the left fold of the value stream with the
\* operator of the subcommand, from the identity when seeded and from the
\* first element otherwise; sub over 6, 2 prints 4.
C8_ResultIsLeftFold ==
    pc = "done" =>
        /\ values = ExpectedValues
        /\ Seeded \/ values # <<>>
        /\ stdout = <<ExpectedFold(ExpectedValues)>>
        /\ ( /\ ~Seeded
             /\ opts.subcmd = "Sub"
             /\ Len(values) = 2
             /\ values[1] = [k |-> "fin", neg |-> FALSE, n |-> 6, d |-> 1]
             /\ values[2] = [k |-> "fin", neg |-> FALSE, n |-> 2, d |-> 1] )
           => stdout = <<[k |-> "fin", neg |-> FALSE, n |-> 4, d |-> 1]>>

\* no seed: div over three numbers, the last one a zero, printed
C8_Witness ==
    /\ pc = "done"
    /\ ~Seeded
    /\ opts.subcmd = "Div"
    /\ Len(values) = 3
    /\ \A k \in 1..3 : NumberLine(k)
    /\ values[1] # values[2]
    /\ IsZero(values[3])

\* t is s without its leading and trailing white space: s is white space,
\* then t, then white space, and t is empty or begins and ends with a
\* character that is no white space
IsTrimOf(t, s) ==
    \E a \in 0..Len(s) : \E b \in a..Len(s) :
        /\ t = SubSeq(s, a + 1, b)
        /\ \A k \in 1..a : s[k] \in WhiteSpace
        /\ \A k \in (b + 1)..Len(s) : s[k] \in WhiteSpace
        /\ t = <<>> \/ (t[1] \notin WhiteSpace /\ t[Len(t)] \notin WhiteSpace)

\* C9: the n-th line read (from 0) is yielded as the pair of n and the
\* line without its leading and trailing white space.
C9_CleanAndEnumerate ==
    (raw # None /\ raw[1].ok) =>
        /\ cleaned # None
        /\ cleaned[1][1] = consumed - 1
        /\ IsTrimOf(cleaned[1][2], raw[1].text)

\* the third line, padded on both sides and with a tab inside, was cleaned
C9_Witness ==
    /\ raw = Some(Line(<<" ", "a", "\t", "a", " ">>))
    /\ cleaned = Some(<<2, <<"a", "\t", "a">>>>)

\* C10: a seeded run prints the seeded fold of the numbers alone: the
\* lines that stand for the identity do not change the result.
C10_IdentityLinesAreNeutral ==
    (pc = "done" /\ Seeded) =>
        stdout = <<FoldLeft(DocIdentity, Numbers(1, EndPos - 1))>>

\* seeded and silent: an ignored line, a number and a line that is no
\* number went into a division, and the run printed
C10_Witness ==
    /\ pc = "done"
    /\ Seeded
    /\ opts.silent
    /\ opts.subcmd = "Div"
    /\ opts.ignore = 1
    /\ Len(values) = 3
    /\ NumberLine(2)
    /\ BadLine(3)

====
